---------------------------- MODULE Spec2Model ----------------------------
(***************************************************************************)
(* A model of the knowledge-chunking pipeline of the Warren Buffett stock  *)
(* analysis agent: the chunker, the semaphore-bounded dispatcher, the      *)
(* aggregator, the record file and the agents' one-shot initialization.    *)
(*                                                                         *)
(* The class KnowledgeChunkingService defines most of its methods twice;   *)
(* in Python the later definition of a name in a class body replaces the   *)
(* earlier one, so the methods that run are the second definitions         *)
(* (knowledge_chunking_service.py lines 334-555).  The model follows them. *)
(*                                                                         *)
(* Each component is modelled over the inputs its interface admits, with a *)
(* specification of its own:                                               *)
(*   ChunkSpec     chunk_knowledge_base, for every text and every setting  *)
(*                 of max_tokens_per_chunk and overlap_tokens;             *)
(*   DispatchSpec  process_full_knowledge_base from the creation of its    *)
(*                 tasks on, for every number of chunks, with and without  *)
(*                 an agent attached to the service;                       *)
(*   AgentSpec     the requests of an agent and its initialization, the    *)
(*                 pipeline being one suspension of the request.           *)
(*   PersistSpec   save_processed_knowledge and load_processed_knowledge   *)
(*                 on one record file, with a restart of the process and   *)
(*                 another reader of the file;                             *)
(*   AggSpec       _aggregate_processed_chunks on a list of extractions    *)
(*                 and on the list with a duplicate or in another order;   *)
(*   RenderSpec    get_condensed_knowledge_for_prompt on digests of every  *)
(*                 size, with a save and load between the calls;           *)
(*   ParseSpec     _parse_structured_response, line by line;               *)
(*   AnalyzeSpec   analyze_stock of the two agents on the same answers of  *)
(*                 the market data tool and the LLM service;               *)
(*   QuoteSpec     MarketDataTool.get_quote for every max_retries, with    *)
(*                 its cache and a client that answers or raises.          *)
(***************************************************************************)
EXTENDS Integers, Sequences, FiniteSets, TLC

VARIABLES
    \* ---- chunk_knowledge_base
    tokens,                 \* self.encoding.encode(knowledge_text)
    max_tokens_per_chunk,   \* self.max_tokens_per_chunk
    overlap_tokens,         \* self.overlap_tokens
    start_idx,              \* the loop variable start_idx
    chunks,                 \* the list chunks (as token slices, before decode)
    chunks_dropped,         \* TRUE once appends beyond MaxChunksKept were not recorded
    chunks_parity,          \* len(chunks) % 2, of the whole list
    chunk_pc,               \* "loop" | "returned"
    \* ---- process_full_knowledge_base and its process_with_semaphore tasks
    agent_attached,         \* whether the service has an attribute `agent`
    sem_value,              \* the semaphore's free slots
    sem_waiters,            \* the tasks waiting in `async with semaphore`, oldest first
    task_pc,                \* per task: "created" | "waiting" | "woken" | "calling" | "done"
    task_result,            \* per task: what process_with_semaphore returned
    call_outcome,           \* per task: how its call of self.agent.run ended
    call_payload,           \* per task: the mapping its call returned, if it returned one
    done_order,             \* the tasks in the order they finished
    pipeline_pc,            \* "gathering" | "returned"
    processed_chunks,       \* the list asyncio.gather returned
    pipeline_result,        \* the dict process_full_knowledge_base returned
    \* ---- the agents and their requests
    agent_class,            \* "WarrenBuffettAgent" | "LangGraphWarrenBuffettAgent"
    knowledge_initialized,  \* self.knowledge_initialized
    condensed_knowledge,    \* self.condensed_knowledge: "" or the rendered text
    processed_knowledge,    \* self.knowledge_service.processed_knowledge
    cache_file,             \* the record file on disk
    req_pc,                 \* per request: "new" | "in_pipeline" | "serving" | "done"
    req_log,                \* per request: what its initialization has done so far
    init_returned,          \* per request: what the agent's initialization returned
    \* ---- save_processed_knowledge and load_processed_knowledge on their own
    save_pc,                \* "idle" | "opened" | "writing"
    saved_knowledge,        \* processed_knowledge as the last save was handed it
    load_result,            \* what the last load returned: "none" | "True" | "False"
    reader_saw,             \* what another reader of the file last found in it
    persist_trace,          \* the calls made so far: "save" | "restart" | "load"
    \* ---- _aggregate_processed_chunks on its own
    agg_input,              \* a list of successful extractions
    agg_variant,            \* the same extractions, one repeated or in another order
    agg_digest,             \* what the aggregator returned for agg_input
    agg_variant_digest,     \* what the aggregator returned for agg_variant
    \* ---- get_condensed_knowledge_for_prompt on its own
    render_texts,           \* the texts the calls made so far returned
    reload_after,           \* the calls made before the record was saved and loaded; -1: never
    \* ---- _parse_structured_response
    parse_lines,            \* response.split('\n')
    parse_idx,              \* the position of the for loop in lines
    current_section,        \* current_section: "None" or a key of result
    parse_result,           \* result
    \* ---- analyze_stock of the two agents, on the same outcomes of their calls
    outcomes,               \* how the market data tool and the LLM service answer
    wb_run,                 \* WarrenBuffettAgent.analyze_stock: position and result
    lg_run,                 \* LangGraphWarrenBuffettAgent.analyze_stock: node and graph state
    \* ---- MarketDataTool.get_quote
    max_retries,            \* self.max_retries
    attempt,                \* the loop variable attempt
    client_calls,           \* the calls of self.client.quote the current get_quote has made
    last_outcome,           \* how the last call of self.client.quote ended
    quote_pc,               \* "idle" | "attempt" | "returned"
    quote_returned,         \* what get_quote returned: a status, or "None"
    quote_cache,            \* self.cache[cache_key]['data']: "none" or the stored status
    quotes_asked            \* the calls of get_quote made so far

chunkVars == <<tokens, max_tokens_per_chunk, overlap_tokens, start_idx,
               chunks, chunks_dropped, chunks_parity, chunk_pc>>

dispatchVars == <<agent_attached, sem_value, sem_waiters, task_pc, task_result,
                  call_outcome, call_payload, done_order, pipeline_pc, processed_chunks,
                  pipeline_result>>

agentVars == <<agent_class, knowledge_initialized, condensed_knowledge,
               processed_knowledge, cache_file, req_pc, req_log, init_returned>>

persistVars == <<save_pc, saved_knowledge, load_result, reader_saw, persist_trace>>

aggVars == <<agg_input, agg_variant, agg_digest, agg_variant_digest>>

renderVars == <<render_texts, reload_after>>

parseVars == <<parse_lines, parse_idx, current_section, parse_result>>

analyzeVars == <<outcomes, wb_run, lg_run>>

quoteVars == <<max_retries, attempt, client_calls, last_outcome, quote_pc,
               quote_returned, quote_cache, quotes_asked>>

\* The state of the functions that are also modelled on their own.
pureVars == <<aggVars, renderVars, parseVars, analyzeVars, quoteVars>>

vars == <<chunkVars, dispatchVars, agentVars, persistVars, pureVars>>

-----------------------------------------------------------------------------
(* Bounds of the model *)

MaxTextTokens == 4
MaxChunkSetting == 3
MaxChunksKept == 6
MaxDispatchChunks == 4
NumRequests == 2
MaxAgentChunks == 2
MaxPersistChunks == 2
MaxPersistCalls == 4
MaxAggChunks == 3
MaxDigestItems == 21
MaxRenderCalls == 2
MaxResponseLines == 3
MaxRetriesSetting == 3
MaxQuoteCalls == 3

TokenIds == {0, 1}

Min(a, b) == IF a < b THEN a ELSE b
Max(a, b) == IF a > b THEN a ELSE b

SeqsUpTo(S, n) == UNION {[1..k -> S] : k \in 0..n}

Range(s) == {s[k] : k \in DOMAIN s}

-----------------------------------------------------------------------------
(* chunk_knowledge_base *)

\* Python's s[lo:hi] for a list s: a negative index counts from the end and
\* both indices are clamped to 0..len(s).
PyIndex(i, n) == IF i < 0 THEN Max(i + n, 0) ELSE Min(i, n)

PySlice(s, lo, hi) ==
    LET a == PyIndex(lo, Len(s))
        b == PyIndex(hi, Len(s))
    IN  IF a < b THEN SubSeq(s, a + 1, b) ELSE <<>>

\* end_idx = min(start_idx + self.max_tokens_per_chunk, len(tokens))
EndIdx(start) == Min(start + max_tokens_per_chunk, Len(tokens))

\* Python integers are unbounded, and with overlap_tokens > max_tokens_per_chunk
\* start_idx decreases at every iteration.  At or below StartFloor every slice
\* is empty and the loop condition stays true, so the model stops counting there.
StartFloor == 0 - (MaxTextTokens + MaxChunkSetting)

\* start_idx = end_idx - self.overlap_tokens
NextStart(end) == Max(end - overlap_tokens, StartFloor)

\* chunks.append(chunk_text); the model records the first MaxChunksKept appends
\* and, past that, only that there were more and whether the list's length is
\* even or odd: the loop never reads the list.
AppendChunk(c) ==
    /\ chunks_parity' = 1 - chunks_parity
    /\ IF Len(chunks) < MaxChunksKept
       THEN /\ chunks' = Append(chunks, c)
            /\ UNCHANGED chunks_dropped
       ELSE /\ chunks_dropped' = TRUE
            /\ UNCHANGED chunks

\* What pipeline_result holds before process_full_knowledge_base has returned.
NoPipelineResult ==
    [total_chunks |-> -1, successful_chunks |-> -1, failed_chunks |-> -1,
     aggregated_knowledge |->
         [investment_principles |-> {}, key_insights |-> {}, memorable_quotes |-> {},
          quantitative_metrics |-> <<>>, chunk_summaries |-> <<>>,
          total_processed_chunks |-> -1]]

\* No pipeline is running.
NoDispatch ==
    /\ agent_attached = FALSE
    /\ sem_value = 0
    /\ sem_waiters = <<>>
    /\ task_pc = <<>>
    /\ task_result = <<>>
    /\ call_outcome = <<>>
    /\ call_payload = <<>>
    /\ done_order = <<>>
    /\ pipeline_pc = "idle"
    /\ processed_chunks = <<>>
    /\ pipeline_result = NoPipelineResult

\* self.processed_knowledge = {}
EmptyKnowledge == NoPipelineResult

\* A JSON array holding the items of a list.
RECURSIVE SetToSeq(_)
SetToSeq(S) ==
    IF S = {} THEN <<>>
    ELSE LET x == CHOOSE y \in S : TRUE
         IN  <<x>> \o SetToSeq(S \ {x})

\* json.dump(self.processed_knowledge, f, ...): the text written for pk.  The
\* lists of the digest become arrays; numbers, strings and the dict with
\* string keys are written as they are.
JsonDump(pk) ==
    [pk EXCEPT !.aggregated_knowledge =
        [@ EXCEPT !.investment_principles = SetToSeq(@),
                  !.key_insights = SetToSeq(@),
                  !.memorable_quotes = SetToSeq(@)]]

\* json.load(f) of a well-formed text: arrays become lists again.
JsonLoad(text) ==
    [text EXCEPT !.aggregated_knowledge =
        [@ EXCEPT !.investment_principles = Range(@),
                  !.key_insights = Range(@),
                  !.memorable_quotes = Range(@)]]

\* What the content field holds when the file has no well-formed JSON text.
NoText == JsonDump(EmptyKnowledge)

\* The record file: "missing"; "corrupt" (garbage, or a text cut short);
\* "empty" and "partial" (under a save in progress); "valid" (well-formed JSON).
NoFile == [state |-> "missing", content |-> NoText]

\* Neither save_processed_knowledge nor load_processed_knowledge has been called.
NoPersist ==
    /\ save_pc = "idle"
    /\ saved_knowledge = EmptyKnowledge
    /\ load_result = "none"
    /\ reader_saw = "nothing"
    /\ persist_trace = <<>>

\* No agent has been constructed.
NoAgent ==
    /\ agent_class = "none"
    /\ knowledge_initialized = FALSE
    /\ condensed_knowledge = ""
    /\ processed_knowledge = EmptyKnowledge
    /\ cache_file = NoFile
    /\ req_pc = <<>>
    /\ req_log = <<>>
    /\ init_returned = <<>>

\* chunk_knowledge_base is not running.
NoChunk ==
    /\ tokens = <<>>
    /\ max_tokens_per_chunk = 1
    /\ overlap_tokens = 0
    /\ start_idx = 0
    /\ chunks = <<>>
    /\ chunks_dropped = FALSE
    /\ chunks_parity = 0
    /\ chunk_pc = "idle"

\* What a digest variable holds before the aggregator has returned.
NoDigest == NoPipelineResult.aggregated_knowledge

\* The aggregator has not been called on its own.
NoAgg ==
    /\ agg_input = <<>>
    /\ agg_variant = <<>>
    /\ agg_digest = NoDigest
    /\ agg_variant_digest = NoDigest

\* get_condensed_knowledge_for_prompt has not been called on its own.
NoRender ==
    /\ render_texts = <<>>
    /\ reload_after = -1

\* result = {'principles': [], 'strategies': [], 'metrics': [], 'insights': [], 'quotes': []}
EmptyParseResult ==
    [principles |-> <<>>, strategies |-> <<>>, metrics |-> <<>>,
     insights |-> <<>>, quotes |-> <<>>]

\* _parse_structured_response has not been called.
NoParse ==
    /\ parse_lines = <<>>
    /\ parse_idx = 0
    /\ current_section = "None"
    /\ parse_result = EmptyParseResult

\* A run of analyze_stock that has not started, and one of the graph.
IdleRun == [pc |-> "idle", market_data |-> "none", analysis |-> "none", status |-> "none"]

IdleGraph ==
    [pc |-> "idle", market_data |-> "none", analysis_result |-> "none",
     error |-> "none", status |-> "none"]

\* analyze_stock has not been called.
NoAnalyze ==
    /\ outcomes = [market |-> "none", fundamentals |-> "none", llm |-> "none"]
    /\ wb_run = IdleRun
    /\ lg_run = IdleGraph

\* get_quote has not been called: an empty cache.
NoQuote ==
    /\ max_retries = 0
    /\ attempt = 0
    /\ client_calls = 0
    /\ last_outcome = "none"
    /\ quote_pc = "idle"
    /\ quote_returned = "none"
    /\ quote_cache = "none"
    /\ quotes_asked = 0

NoPure == NoAgg /\ NoRender /\ NoParse /\ NoAnalyze /\ NoQuote

ChunkInit ==
    /\ NoDispatch
    /\ NoAgent
    /\ NoPersist
    /\ NoPure
    /\ tokens \in SeqsUpTo(TokenIds, MaxTextTokens)
    /\ max_tokens_per_chunk \in 1..MaxChunkSetting
    /\ overlap_tokens \in 0..MaxChunkSetting
    /\ start_idx = 0
    /\ chunks = <<>>
    /\ chunks_dropped = FALSE
    /\ chunks_parity = 0
    /\ chunk_pc = "loop"

\* One iteration of the while loop, its trailing break included.
ChunkIterate ==
    /\ chunk_pc = "loop"
    /\ start_idx < Len(tokens)
    /\ LET end_idx == EndIdx(start_idx)
       IN  /\ AppendChunk(PySlice(tokens, start_idx, end_idx))
           /\ start_idx' = NextStart(end_idx)
           /\ chunk_pc' = IF start_idx' >= Len(tokens) THEN "returned" ELSE "loop"
    /\ UNCHANGED <<tokens, max_tokens_per_chunk, overlap_tokens>>
    /\ UNCHANGED <<dispatchVars, agentVars, persistVars, pureVars>>

\* The loop condition is false: return chunks.
ChunkReturn ==
    /\ chunk_pc = "loop"
    /\ ~(start_idx < Len(tokens))
    /\ chunk_pc' = "returned"
    /\ UNCHANGED <<tokens, max_tokens_per_chunk, overlap_tokens, start_idx,
                   chunks, chunks_dropped, chunks_parity>>
    /\ UNCHANGED <<dispatchVars, agentVars, persistVars, pureVars>>

ChunkNext ==
    \/ ChunkIterate
    \/ ChunkReturn

ChunkSpec == ChunkInit /\ [][ChunkNext]_vars

\* The loop is sequential code: it keeps running while it can.
ChunkFairSpec == ChunkSpec /\ WF_vars(ChunkNext)

\* A chunk without the overlap it repeats from the chunk before it.
DropOverlap(c) == SubSeq(c, overlap_tokens + 1, Len(c))

RECURSIVE ConcatWithoutOverlaps(_)
ConcatWithoutOverlaps(cs) ==
    IF cs = <<>> THEN <<>>
    ELSE ConcatWithoutOverlaps(SubSeq(cs, 1, Len(cs) - 1)) \o DropOverlap(cs[Len(cs)])

\* The chunks put together again: the first whole, the others without overlap.
Reassembled(cs) ==
    IF cs = <<>> THEN <<>> ELSE cs[1] \o ConcatWithoutOverlaps(Tail(cs))

\* C1: chunk_knowledge_base terminates for every text and every setting of
\* max_tokens_per_chunk and overlap_tokens, and returns at least one chunk when
\* the text is not empty.
C1_ChunkerTerminates ==
    <>(chunk_pc = "returned" /\ (Len(tokens) > 0 => Len(chunks) >= 1))

\* C10: for 0 <= overlap_tokens < max_tokens_per_chunk, chunk_knowledge_base
\* returns chunks that, put together without their overlaps, are the input.
C10_ChunkCoverage ==
    (overlap_tokens < max_tokens_per_chunk) =>
        <>(chunk_pc = "returned" /\ ~chunks_dropped /\ Reassembled(chunks) = tokens)

\* The chunk about to be cut, chunk number Len(chunks), starts a whole number
\* of strides into the text.
C11_StartsAtStride ==
    (chunk_pc = "loop" /\ start_idx < Len(tokens) /\ ~chunks_dropped)
        => start_idx = Len(chunks) * (max_tokens_per_chunk - overlap_tokens)

\* Every chunk but the last is a full window.
C11_OnlyLastShorter ==
    \A k \in 1..(Len(chunks) - 1) : Len(chunks[k]) = max_tokens_per_chunk

\* The iteration whose window reaches the end of the text is the last one.
C11_StopsAtEnd ==
    (chunk_pc = "loop" /\ start_idx < Len(tokens)
        /\ EndIdx(start_idx) = Len(tokens) /\ chunks_parity' # chunks_parity)
        => chunk_pc' = "returned"

\* C11: for 0 <= overlap_tokens < max_tokens_per_chunk, chunk k starts at token
\* k * (max_tokens_per_chunk - overlap_tokens), only the last chunk may be
\* shorter than max_tokens_per_chunk, and the chunker stops with the first chunk
\* that reaches the end of the text (so 25,000 tokens with 8000/200 give 4 chunks).
C11_WindowLayout ==
    /\ []((overlap_tokens < max_tokens_per_chunk) =>
             (C11_StartsAtStride /\ C11_OnlyLastShorter))
    /\ [][(overlap_tokens < max_tokens_per_chunk) => C11_StopsAtEnd]_vars

-----------------------------------------------------------------------------
(* process_knowledge_chunk *)

\* What self.agent.run, handed to a thread, may come back with.
\* A Python dict without keys.
EmptyDict == <<>>

\* The mappings self.agent.run may return: the keys process_knowledge_chunk
\* reads, and `strategies`, which it does not read.
AgentPayloads ==
    {[summary |-> "s1", principles |-> <<"moat">>, strategies |-> <<"hold">>,
      insights |-> <<"patience">>, quotes |-> <<"q1">>, metrics |-> ("roe" :> "15")],
     [summary |-> "s2", principles |-> <<"moat", "margin">>, strategies |-> <<"hold">>,
      insights |-> <<>>, quotes |-> <<"q1", "q2">>, metrics |-> ("roe" :> "20")]}

EmptyPayload ==
    [summary |-> "", principles |-> <<>>, strategies |-> <<>>, insights |-> <<>>,
     quotes |-> <<>>, metrics |-> EmptyDict]

\* returns_dict: a mapping; returns_text: an object without .get; raises: an exception.
CallOutcomes ==
    {[type |-> "returns_dict", payload |-> p] : p \in AgentPayloads}
    \cup {[type |-> "returns_text", payload |-> EmptyPayload],
          [type |-> "raises", payload |-> EmptyPayload]}

\* The dict of the try branch.
SuccessResult(i, p) ==
    [kind |-> "dict", chunk_index |-> i, processed |-> TRUE, error |-> "none",
     summary |-> p.summary, principles |-> p.principles, insights |-> p.insights,
     quotes |-> p.quotes, metrics |-> p.metrics]

\* The dict of the except branch: it has no item keys, which .get reads as empty.
FailureResult(i, msg) ==
    [kind |-> "dict", chunk_index |-> i, processed |-> FALSE, error |-> msg,
     summary |-> "", principles |-> <<>>, insights |-> <<>>, quotes |-> <<>>,
     metrics |-> EmptyDict]

\* An exception object standing in asyncio.gather's result list.
ExceptionResult(msg) ==
    [kind |-> "exception", chunk_index |-> -1, processed |-> FALSE, error |-> msg,
     summary |-> "", principles |-> <<>>, insights |-> <<>>, quotes |-> <<>>,
     metrics |-> EmptyDict]

PendingResult ==
    [kind |-> "pending", chunk_index |-> -1, processed |-> FALSE, error |-> "none",
     summary |-> "", principles |-> <<>>, insights |-> <<>>, quotes |-> <<>>,
     metrics |-> EmptyDict]

\* process_knowledge_chunk without its except branch.
ProcessKnowledgeChunk_NoCatch(i, o) ==
    CASE o.type = "returns_dict" -> SuccessResult(i, o.payload)
      [] o.type = "returns_text" -> ExceptionResult("no attribute get")
      [] OTHER                   -> ExceptionResult("agent error")

\* process_knowledge_chunk after the thread call has ended with outcome o:
\* result.get on a non-mapping raises inside the try block, like the call itself.
ProcessKnowledgeChunk(i, o) ==
    CASE o.type = "returns_dict" -> SuccessResult(i, o.payload)
      [] o.type = "returns_text" -> FailureResult(i, "no attribute get")
      [] OTHER                   -> FailureResult(i, "agent error")

\* Without an attribute `agent`, evaluating self.agent.run raises AttributeError
\* inside the try block, before anything is awaited.
NoAgentResult(i) == FailureResult(i, "no attribute agent")

-----------------------------------------------------------------------------
(* process_full_knowledge_base: the dispatcher *)

\* semaphore = asyncio.Semaphore(3)
SemaphoreSize == 3

TaskIds == DOMAIN task_pc

\* A semaphore that admits everybody.
SemLocked_Never == FALSE

\* Semaphore.locked(): no free slot, or somebody is already waiting.
SemLocked == sem_value = 0 \/ sem_waiters # <<>>

\* A release that frees the slot and wakes nobody.
AfterRelease_NoWake(v, i) ==
    [value |-> v + 1, waiters |-> sem_waiters, pc |-> [task_pc EXCEPT ![i] = "done"]]

\* Semaphore.release() by task i as it leaves `async with`, the semaphore's value
\* being v: the oldest waiter, if any, is handed the slot and woken.
AfterRelease(v, i) ==
    IF sem_waiters # <<>>
    THEN [value |-> v, waiters |-> Tail(sem_waiters),
          pc |-> [task_pc EXCEPT ![i] = "done", ![Head(sem_waiters)] = "woken"]]
    ELSE [value |-> v + 1, waiters |-> sem_waiters,
          pc |-> [task_pc EXCEPT ![i] = "done"]]

\* A task that keeps its slot when its chunk failed.
FinishTask_LeaksOnFailure(i, v, r, t) ==
    LET s == IF r.processed THEN AfterRelease(v, i)
             ELSE [value |-> v, waiters |-> sem_waiters,
                   pc |-> [task_pc EXCEPT ![i] = "done"]]
    IN  /\ sem_value' = s.value
        /\ sem_waiters' = s.waiters
        /\ task_pc' = s.pc
        /\ task_result' = [task_result EXCEPT ![i] = r]
        /\ call_outcome' = [call_outcome EXCEPT ![i] = t]
        /\ done_order' = Append(done_order, i)

\* process_with_semaphore returns r, the call having ended as t: the slot is
\* released in the same step.
FinishTask(i, v, r, t) ==
    LET s == AfterRelease(v, i)
    IN  /\ sem_value' = s.value
        /\ sem_waiters' = s.waiters
        /\ task_pc' = s.pc
        /\ task_result' = [task_result EXCEPT ![i] = r]
        /\ call_outcome' = [call_outcome EXCEPT ![i] = t]
        /\ done_order' = Append(done_order, i)

\* Task i holds a slot (the semaphore's value being v) and runs
\* process_knowledge_chunk up to its first suspension.
EnterCall(i, v) ==
    IF agent_attached
    THEN /\ sem_value' = v
         /\ task_pc' = [task_pc EXCEPT ![i] = "calling"]
         /\ UNCHANGED <<sem_waiters, task_result, call_outcome, done_order>>
    ELSE FinishTask(i, v, NoAgentResult(i), "no_agent")

AllStarted == \A j \in TaskIds : task_pc[j] # "created"

DispatchInit ==
    /\ NoAgent
    /\ NoPersist
    /\ NoPure
    /\ \E n \in 0..MaxDispatchChunks :
          /\ tokens = [k \in 1..n |-> 0]
          /\ chunks = [k \in 1..n |-> <<0>>]
          /\ start_idx = n
    /\ max_tokens_per_chunk = 1
    /\ overlap_tokens = 0
    /\ chunks_dropped = FALSE
    /\ chunks_parity = Len(chunks) % 2
    /\ chunk_pc = "returned"
    \* __init__ assigns no attribute `agent`: the service has one only when the
    \* code that builds the service attaches it.
    /\ agent_attached \in BOOLEAN
    /\ sem_value = SemaphoreSize
    /\ sem_waiters = <<>>
    /\ task_pc = [i \in 0..(Len(chunks) - 1) |-> "created"]
    /\ task_result = [i \in 0..(Len(chunks) - 1) |-> PendingResult]
    /\ call_outcome = [i \in 0..(Len(chunks) - 1) |-> "none"]
    /\ call_payload = [i \in 0..(Len(chunks) - 1) |-> EmptyPayload]
    /\ done_order = <<>>
    /\ pipeline_pc = "gathering"
    /\ processed_chunks = <<>>
    /\ pipeline_result = NoPipelineResult

\* The first step of task i: `async with semaphore`.  The event loop runs the
\* tasks gather created in the order of their creation.
StartTask(i) ==
    /\ pipeline_pc = "gathering"
    /\ task_pc[i] = "created"
    /\ \A j \in TaskIds : j < i => task_pc[j] # "created"
    /\ IF ~SemLocked
       THEN EnterCall(i, sem_value - 1)
       ELSE /\ sem_waiters' = Append(sem_waiters, i)
            /\ task_pc' = [task_pc EXCEPT ![i] = "waiting"]
            /\ UNCHANGED <<sem_value, task_result, call_outcome, done_order>>
    /\ UNCHANGED <<agent_attached, call_payload, pipeline_pc, processed_chunks,
                   pipeline_result>>
    /\ UNCHANGED <<chunkVars, agentVars, persistVars, pureVars>>

\* A waiter that was handed a slot runs on.
ResumeTask(i) ==
    /\ pipeline_pc = "gathering"
    /\ task_pc[i] = "woken"
    /\ EnterCall(i, sem_value)
    /\ UNCHANGED <<agent_attached, call_payload, pipeline_pc, processed_chunks,
                   pipeline_result>>
    /\ UNCHANGED <<chunkVars, agentVars, persistVars, pureVars>>

\* The thread call of task i ends; the task returns and releases its slot.
\* Every task has had its first step by then: they were all ready before the
\* first call could end.
CallReturns(i) ==
    /\ pipeline_pc = "gathering"
    /\ task_pc[i] = "calling"
    /\ AllStarted
    /\ \E o \in CallOutcomes :
          /\ FinishTask(i, sem_value, ProcessKnowledgeChunk(i, o), o.type)
          /\ call_payload' = [call_payload EXCEPT ![i] = o.payload]
    /\ UNCHANGED <<agent_attached, pipeline_pc, processed_chunks, pipeline_result>>
    /\ UNCHANGED <<chunkVars, agentVars, persistVars, pureVars>>

\* The results in the order in which the tasks finished.
GatherResults_CompletionOrder ==
    [k \in 1..Len(done_order) |-> task_result[done_order[k]]]

\* asyncio.gather(*tasks, return_exceptions=True): the results in the order of
\* the tasks.
GatherResults == [k \in 1..Len(chunks) |-> task_result[k - 1]]

\* No filter: every result is handed to the aggregator.
SuccessfulChunks_All(results) == results

SuccessfulChunks(results) ==
    LET Ok(c) == c.kind = "dict" /\ c.processed
    IN  SelectSeq(results, Ok)

\* Only exception objects counted as failures.
FailedChunks_ExceptionsOnly(results) ==
    LET Bad(c) == c.kind = "exception"
    IN  SelectSeq(results, Bad)

FailedChunks(results) ==
    LET Bad(c) == c.kind = "exception" \/ ~c.processed
    IN  SelectSeq(results, Bad)

\* d.update(e): the keys of e take e's values.
DictUpdate(d, e) ==
    [k \in (DOMAIN d) \cup (DOMAIN e) |-> IF k \in DOMAIN e THEN e[k] ELSE d[k]]

\* all_metrics after the loop: every chunk's metrics applied in list order.
RECURSIVE AllMetrics(_)
AllMetrics(successful) ==
    IF successful = <<>> THEN EmptyDict
    ELSE DictUpdate(AllMetrics(SubSeq(successful, 1, Len(successful) - 1)),
                    successful[Len(successful)].metrics)

\* summaries after the loop: the non-empty summaries in list order.
ChunkSummaries(successful) ==
    LET NonEmpty(c) == c.summary # ""
        kept == SelectSeq(successful, NonEmpty)
    IN  [k \in 1..Len(kept) |-> kept[k].summary]

\* An aggregator that counts the chunks of the run instead of the list it is
\* handed.
AggregateProcessedChunks_CountAll(successful) ==
    [investment_principles |->
         UNION {Range(successful[k].principles) : k \in DOMAIN successful},
     key_insights |->
         UNION {Range(successful[k].insights) : k \in DOMAIN successful},
     memorable_quotes |->
         UNION {Range(successful[k].quotes) : k \in DOMAIN successful},
     quantitative_metrics |-> AllMetrics(successful),
     chunk_summaries |-> ChunkSummaries(successful),
     total_processed_chunks |-> Len(chunks)]

\* _aggregate_processed_chunks.  list(set(...)) is a list without duplicates
\* in an order Python does not fix: the model keeps it as the set of its items.
AggregateProcessedChunks(successful) ==
    [investment_principles |->
         UNION {Range(successful[k].principles) : k \in DOMAIN successful},
     key_insights |->
         UNION {Range(successful[k].insights) : k \in DOMAIN successful},
     memorable_quotes |->
         UNION {Range(successful[k].quotes) : k \in DOMAIN successful},
     quantitative_metrics |-> AllMetrics(successful),
     chunk_summaries |-> ChunkSummaries(successful),
     total_processed_chunks |-> Len(successful)]

PipelineResult(results) ==
    [total_chunks |-> Len(chunks),
     successful_chunks |-> Len(SuccessfulChunks(results)),
     failed_chunks |-> Len(FailedChunks(results)),
     aggregated_knowledge |-> AggregateProcessedChunks(SuccessfulChunks(results))]

\* Every task is done: gather returns, the results are compiled and returned.
GatherDone ==
    /\ pipeline_pc = "gathering"
    /\ \A i \in TaskIds : task_pc[i] = "done"
    /\ processed_chunks' = GatherResults
    /\ pipeline_result' = PipelineResult(processed_chunks')
    /\ pipeline_pc' = "returned"
    /\ UNCHANGED <<agent_attached, sem_value, sem_waiters, task_pc, task_result,
                   call_outcome, call_payload, done_order>>
    /\ UNCHANGED <<chunkVars, agentVars, persistVars, pureVars>>

\* The steps the event loop takes on its own.
ProgramSteps ==
    \/ \E i \in TaskIds : StartTask(i)
    \/ \E i \in TaskIds : ResumeTask(i)
    \/ GatherDone

\* The steps that wait for the thread running self.agent.run.
AnswerSteps == \E i \in TaskIds : CallReturns(i)

DispatchNext ==
    \/ ProgramSteps
    \/ AnswerSteps

DispatchSpec == DispatchInit /\ [][DispatchNext]_vars

\* The event loop runs every ready task, and every started call returns.
DispatchFairSpec == DispatchSpec /\ WF_vars(ProgramSteps) /\ WF_vars(AnswerSteps)

\* The event loop runs every ready task; nothing makes a call return.
DispatchNoAnswerSpec == DispatchSpec /\ WF_vars(ProgramSteps)

-----------------------------------------------------------------------------
(* WarrenBuffettAgent and LangGraphWarrenBuffettAgent: initialization *)

Requests == 1..NumRequests

\* What process_full_knowledge_base returns for n chunks of which k succeeded.
MadeResult(n, k) ==
    [total_chunks |-> n, successful_chunks |-> k, failed_chunks |-> n - k,
     aggregated_knowledge |->
         [investment_principles |-> IF k > 0 THEN {"moat"} ELSE {},
          key_insights |-> IF k > 0 THEN {"patience"} ELSE {},
          memorable_quotes |-> IF k > 0 THEN {"q1"} ELSE {},
          quantitative_metrics |-> IF k > 0 THEN ("roe" :> "15") ELSE EmptyDict,
          chunk_summaries |-> [j \in 1..k |-> "s1"],
          total_processed_chunks |-> k]]

\* The results of a run that had chunks to dispatch.
DispatchedResults ==
    UNION {{MadeResult(n, k) : k \in 0..n} : n \in 1..MaxAgentChunks}

\* The file after a complete save of pk.
ValidFile(pk) == [state |-> "valid", content |-> JsonDump(pk)]

\* The record file as a process may find it at its start: none, garbage or a
\* text cut short, a record, and the well-formed JSON text {} that holds none
\* of the record's keys.
InitialFiles ==
    {NoFile,
     [state |-> "corrupt", content |-> NoText],
     ValidFile(MadeResult(1, 1)),
     ValidFile(EmptyKnowledge)}

\* A load that parses the first line of the file only: of a text written with
\* indent=2 that line is a lone brace, unless the text is {}.
LoadSucceeds_FirstLineOnly == cache_file.state = "valid" /\ cache_file.content = NoText

\* load_processed_knowledge returns True when open and json.load raise nothing:
\* the file exists and holds well-formed JSON, whatever its keys.
LoadSucceeds == cache_file.state = "valid"

\* A load that resets processed_knowledge before it reads the file.
LoadProcessedKnowledge_ClearsOnFailure ==
    IF LoadSucceeds
    THEN [returned |-> "True", knowledge |-> JsonLoad(cache_file.content)]
    ELSE [returned |-> "False", knowledge |-> EmptyKnowledge]

\* load_processed_knowledge: on success processed_knowledge is what json.load
\* returned; any exception gives False and leaves processed_knowledge as it was.
LoadProcessedKnowledge ==
    IF LoadSucceeds
    THEN [returned |-> "True", knowledge |-> JsonLoad(cache_file.content)]
    ELSE [returned |-> "False", knowledge |-> processed_knowledge]

\* The rendering without its guard `if not self.processed_knowledge`.
CondensedText_NoGuard(pk) == "text"

\* get_condensed_knowledge_for_prompt: "" for an empty processed_knowledge,
\* the rendered text otherwise.
CondensedText(pk) == IF pk = EmptyKnowledge THEN "" ELSE "text"

AgentInit ==
    /\ NoDispatch
    /\ NoPersist
    /\ NoPure
    /\ tokens = <<>>
    /\ max_tokens_per_chunk = 1
    /\ overlap_tokens = 0
    /\ start_idx = 0
    /\ chunks = <<>>
    /\ chunks_dropped = FALSE
    /\ chunks_parity = 0
    /\ chunk_pc = "idle"
    /\ agent_class \in {"WarrenBuffettAgent", "LangGraphWarrenBuffettAgent"}
    /\ knowledge_initialized = FALSE
    /\ condensed_knowledge = ""
    /\ processed_knowledge = EmptyKnowledge
    /\ cache_file \in InitialFiles
    /\ req_pc = [r \in Requests |-> "new"]
    /\ req_log = [r \in Requests |-> <<>>]
    /\ init_returned = [r \in Requests |-> "not_called"]

\* The guard of analyze_stock, chat and the initialization itself.
NeedsInit_Always == TRUE

NeedsInit == ~knowledge_initialized

\* What the agent's initialization returns when it runs to its end, and when
\* the service's initialize_knowledge_base returned False.
\* LangGraphWarrenBuffettAgent._initialize_knowledge_base returns nothing.
InitReturns(completed) ==
    IF agent_class = "LangGraphWarrenBuffettAgent" THEN "None"
    ELSE IF completed THEN "True" ELSE "False"

\* The rest of initialization once knowledge_service.initialize_knowledge_base
\* has returned ok (True, with result stored) or not (False); events is what
\* the request has done in this step before that.
\* WarrenBuffettAgent saves and becomes ready only on True and returns False
\* otherwise; LangGraphWarrenBuffettAgent ignores the return value.
FinishInit(r, ok, result, events) ==
    LET pk == IF ok THEN result ELSE processed_knowledge
        goes_on == ok \/ agent_class = "LangGraphWarrenBuffettAgent"
    IN  /\ processed_knowledge' = pk
        /\ IF goes_on
           THEN /\ cache_file' = ValidFile(pk)
                /\ condensed_knowledge' = CondensedText(pk)
                /\ knowledge_initialized' = TRUE
                /\ req_log' = [req_log EXCEPT ![r] = @ \o events \o <<"save", "ready">>]
           ELSE /\ req_log' = [req_log EXCEPT ![r] = @ \o events]
                /\ UNCHANGED <<cache_file, condensed_knowledge, knowledge_initialized>>
        /\ init_returned' = [init_returned EXCEPT ![r] = InitReturns(goes_on)]
        /\ req_pc' = [req_pc EXCEPT ![r] = "serving"]

\* process_full_knowledge_base up to `await asyncio.gather`: the corpus is
\* loaded and chunked without suspension.  "dispatches": there are chunks and
\* the request is suspended in gather; "no_chunks": the loader found no text,
\* the chunker returns [] and gather of nothing returns at once; "raises": the
\* loader or the tokenizer raised.
PipelineStarts == {"dispatches", "no_chunks", "raises"}

\* A request (analyze_stock or chat) runs from its arrival to its first
\* suspension.
Arrive(r) ==
    /\ req_pc[r] = "new"
    /\ IF ~NeedsInit
       THEN /\ req_pc' = [req_pc EXCEPT ![r] = "serving"]
            /\ UNCHANGED <<knowledge_initialized, condensed_knowledge,
                           processed_knowledge, cache_file, req_log, init_returned>>
       ELSE IF LoadProcessedKnowledge.returned = "True"
       THEN /\ processed_knowledge' = LoadProcessedKnowledge.knowledge
            /\ condensed_knowledge' = CondensedText(processed_knowledge')
            /\ knowledge_initialized' = TRUE
            /\ req_pc' = [req_pc EXCEPT ![r] = "serving"]
            /\ req_log' = [req_log EXCEPT ![r] = @ \o <<"load_ok", "ready">>]
            /\ init_returned' = [init_returned EXCEPT ![r] = InitReturns(TRUE)]
            /\ UNCHANGED cache_file
       ELSE \E start \in PipelineStarts :
               CASE start = "dispatches" ->
                        /\ req_pc' = [req_pc EXCEPT ![r] = "in_pipeline"]
                        /\ req_log' = [req_log EXCEPT ![r] =
                               @ \o <<"load_absent", "pipeline", "chunk">>]
                        /\ UNCHANGED <<knowledge_initialized, condensed_knowledge,
                                       processed_knowledge, cache_file, init_returned>>
                 [] start = "no_chunks" ->
                        FinishInit(r, TRUE, MadeResult(0, 0),
                                   <<"load_absent", "pipeline", "chunk", "zero_chunks",
                                     "dispatch", "aggregate">>)
                 [] OTHER ->
                        FinishInit(r, FALSE, EmptyKnowledge,
                                   <<"load_absent", "pipeline", "loader_raised">>)
    /\ UNCHANGED <<agent_class, chunkVars, dispatchVars, persistVars, pureVars>>

\* gather returns to request r and process_full_knowledge_base ends: it returns
\* its result, or raises while compiling it.
PipelineEnds(r) ==
    /\ req_pc[r] = "in_pipeline"
    /\ \/ \E result \in DispatchedResults :
             FinishInit(r, TRUE, result, <<"dispatch", "aggregate">>)
       \/ FinishInit(r, FALSE, EmptyKnowledge, <<"dispatch", "aggregate_raised">>)
    /\ UNCHANGED <<agent_class, chunkVars, dispatchVars, persistVars, pureVars>>

\* The request does its own work (market data, LLM call) and returns.
Serve(r) ==
    /\ req_pc[r] = "serving"
    /\ req_pc' = [req_pc EXCEPT ![r] = "done"]
    /\ UNCHANGED <<agent_class, knowledge_initialized, condensed_knowledge,
                   processed_knowledge, cache_file, req_log, init_returned,
                   chunkVars, dispatchVars, persistVars, pureVars>>

AgentNext ==
    \/ \E r \in Requests : Arrive(r)
    \/ \E r \in Requests : PipelineEnds(r)
    \/ \E r \in Requests : Serve(r)

AgentSpec == AgentInit /\ [][AgentNext]_vars

\* C2: of the requests that arrive while the agent is uninitialized, at most one
\* starts the chunk-summarization pipeline: no two requests are ever inside
\* process_full_knowledge_base together.
C2_OneShotInit == Cardinality({r \in DOMAIN req_pc : req_pc[r] = "in_pipeline"}) <= 1

\* The calls of load_processed_knowledge and of process_full_knowledge_base
\* that request r has made.
InitCalls(log) ==
    Cardinality({k \in DOMAIN log : log[k] \in {"load_ok", "load_absent", "pipeline"}})

\* C12: the agent becomes ready at most once: once knowledge_initialized is True
\* it never becomes False again, and from then on no request starts another load
\* of the record file or another run of the pipeline.
C12_ReadyOnce ==
    [][knowledge_initialized =>
          /\ knowledge_initialized'
          /\ \A r \in DOMAIN req_log : InitCalls(req_log'[r]) = InitCalls(req_log[r])]_vars

\* Both requests are answered, and one of them arrived at a ready agent.
C12_Witness ==
    /\ knowledge_initialized
    /\ \A r \in DOMAIN req_pc : req_pc[r] = "done"
    /\ \E r \in DOMAIN req_log : req_log[r] # <<>>
    /\ \E r \in DOMAIN req_log : req_log[r] = <<>>

\* The first n events of a log.
Prefix(log, n) == SubSeq(log, 1, Min(n, Len(log)))

\* C13: an initialization attempts the load first; when the load succeeds the
\* loaded record is adopted and neither chunker nor dispatcher runs; when the
\* load reports absent, chunker, dispatcher and aggregator run in that order and
\* save is called only after all three have finished.
C13_LoadFirstThenPipeline ==
    \A r \in DOMAIN req_log :
        LET log == req_log[r]
        IN  log # <<>> =>
              /\ log[1] \in {"load_ok", "load_absent"}
              /\ log[1] = "load_ok" => log = <<"load_ok", "ready">>
              /\ "save" \in Range(log) =>
                    \/ Prefix(log, 6) = <<"load_absent", "pipeline", "chunk",
                                          "dispatch", "aggregate", "save">>
                    \/ Prefix(log, 7) = <<"load_absent", "pipeline", "chunk", "zero_chunks",
                                          "dispatch", "aggregate", "save">>

\* C14: the record file is written only after a pipeline run that completed
\* successfully: a step that creates or overwrites the file belongs to a request
\* whose run has returned its result.
C14_SaveOnlyAfterSuccess ==
    [][cache_file' # cache_file =>
          \E r \in DOMAIN req_log :
              /\ req_log'[r] # req_log[r]
              /\ "aggregate" \in Range(req_log'[r])]_vars

\* C18: when the corpus loader fails or the chunker produces no chunk, the
\* initialization returns False to its caller and does not mark the agent ready.
C18_TotalFailureReported ==
    \A r \in DOMAIN req_log :
        ("loader_raised" \in Range(req_log[r]) \/ "zero_chunks" \in Range(req_log[r]))
            => /\ init_returned[r] = "False"
               /\ "ready" \notin Range(req_log[r])

\* No request has loaded a record or had the pipeline return a result.
NoDigestYet ==
    \A r \in DOMAIN req_log :
        "load_ok" \notin Range(req_log[r]) /\ "aggregate" \notin Range(req_log[r])

\* C25: as long as no initialization has succeeded (no record loaded, no
\* result returned by the pipeline, a failed initialization included),
\* get_condensed_knowledge_for_prompt returns the empty string, and so does
\* the call the agent made of it.
C25_EmptyTextBeforeInit ==
    NoDigestYet =>
        /\ CondensedText(processed_knowledge) = ""
        /\ condensed_knowledge = ""

\* An initialization has failed and the agent has rendered the text after it.
C25_Witness ==
    /\ NoDigestYet
    /\ knowledge_initialized
    /\ \E r \in DOMAIN req_log : "loader_raised" \in Range(req_log[r])

\* C31: whenever knowledge_initialized is True the service holds a processed
\* record with aggregated_knowledge, made by a pipeline run that returned or
\* loaded from a record one wrote: the agent is never ready with an empty or
\* failed record.
C31_ReadyImpliesRecord ==
    knowledge_initialized =>
        /\ processed_knowledge # EmptyKnowledge
        /\ \E r \in DOMAIN req_log :
              "load_ok" \in Range(req_log[r]) \/ "aggregate" \in Range(req_log[r])

-----------------------------------------------------------------------------
(* save_processed_knowledge and load_processed_knowledge *)

\* What process_full_knowledge_base returns when the agent answered the chunks
\* with the payloads ps.
RecordOf(ps) ==
    [total_chunks |-> Len(ps), successful_chunks |-> Len(ps), failed_chunks |-> 0,
     aggregated_knowledge |->
         AggregateProcessedChunks([k \in 1..Len(ps) |-> SuccessResult(k - 1, ps[k])])]

\* The values processed_knowledge may hold when save is called: {} and the
\* results of runs, from the empty digest on.
PersistRecords ==
    {EmptyKnowledge} \cup {RecordOf(ps) : ps \in SeqsUpTo(AgentPayloads, MaxPersistChunks)}

PersistInit ==
    /\ NoDispatch
    /\ NoPersist
    /\ NoPure
    /\ tokens = <<>>
    /\ max_tokens_per_chunk = 1
    /\ overlap_tokens = 0
    /\ start_idx = 0
    /\ chunks = <<>>
    /\ chunks_dropped = FALSE
    /\ chunks_parity = 0
    /\ chunk_pc = "idle"
    /\ agent_class = "none"
    /\ knowledge_initialized = FALSE
    /\ condensed_knowledge = ""
    /\ req_pc = <<>>
    /\ req_log = <<>>
    /\ init_returned = <<>>
    /\ processed_knowledge \in PersistRecords
    /\ cache_file \in InitialFiles

CallsLeft == Len(persist_trace) < MaxPersistCalls

\* save_processed_knowledge, `with open(filepath, 'w')`: the file is created or
\* cut to length 0 under its own name.
SaveOpen ==
    /\ save_pc = "idle"
    /\ CallsLeft
    /\ save_pc' = "opened"
    /\ saved_knowledge' = processed_knowledge
    /\ cache_file' = [state |-> "empty", content |-> NoText]
    /\ persist_trace' = Append(persist_trace, "save")
    /\ UNCHANGED <<load_result, reader_saw>>
    /\ UNCHANGED <<agent_class, knowledge_initialized, condensed_knowledge,
                   processed_knowledge, req_pc, req_log, init_returned>>
    /\ UNCHANGED <<chunkVars, dispatchVars, pureVars>>

\* json.dump writes the text piece by piece: a part of it has reached the file.
SaveWrite ==
    /\ save_pc = "opened"
    /\ save_pc' = "writing"
    /\ cache_file' = [state |-> "partial", content |-> NoText]
    /\ UNCHANGED <<saved_knowledge, load_result, reader_saw, persist_trace>>
    /\ UNCHANGED <<agent_class, knowledge_initialized, condensed_knowledge,
                   processed_knowledge, req_pc, req_log, init_returned>>
    /\ UNCHANGED <<chunkVars, dispatchVars, pureVars>>

\* The with block ends: the rest of the text is flushed and the file closed.
SaveClose ==
    /\ save_pc \in {"opened", "writing"}
    /\ save_pc' = "idle"
    /\ cache_file' = ValidFile(processed_knowledge)
    /\ UNCHANGED <<saved_knowledge, load_result, reader_saw, persist_trace>>
    /\ UNCHANGED <<agent_class, knowledge_initialized, condensed_knowledge,
                   processed_knowledge, req_pc, req_log, init_returned>>
    /\ UNCHANGED <<chunkVars, dispatchVars, pureVars>>

\* The process starts again: a new service, with processed_knowledge = {}.
Restart ==
    /\ save_pc = "idle"
    /\ CallsLeft
    /\ processed_knowledge' = EmptyKnowledge
    /\ persist_trace' = Append(persist_trace, "restart")
    /\ UNCHANGED <<save_pc, saved_knowledge, load_result, reader_saw>>
    /\ UNCHANGED <<agent_class, knowledge_initialized, condensed_knowledge,
                   cache_file, req_pc, req_log, init_returned>>
    /\ UNCHANGED <<chunkVars, dispatchVars, pureVars>>

\* load_processed_knowledge
Load ==
    /\ save_pc = "idle"
    /\ CallsLeft
    /\ processed_knowledge' = LoadProcessedKnowledge.knowledge
    /\ load_result' = LoadProcessedKnowledge.returned
    /\ persist_trace' = Append(persist_trace, "load")
    /\ UNCHANGED <<save_pc, saved_knowledge, reader_saw>>
    /\ UNCHANGED <<agent_class, knowledge_initialized, condensed_knowledge,
                   cache_file, req_pc, req_log, init_returned>>
    /\ UNCHANGED <<chunkVars, dispatchVars, pureVars>>

\* Another process opens the file and reads what is in it at that moment.
ReaderReads ==
    /\ reader_saw' = cache_file.state
    /\ UNCHANGED <<save_pc, saved_knowledge, load_result, persist_trace>>
    /\ UNCHANGED <<agentVars, chunkVars, dispatchVars, pureVars>>

PersistNext ==
    \/ SaveOpen
    \/ SaveWrite
    \/ SaveClose
    \/ Restart
    \/ Load
    \/ ReaderReads

PersistSpec == PersistInit /\ [][PersistNext]_vars

\* The last call made was a load.
JustLoaded ==
    /\ persist_trace # <<>>
    /\ persist_trace[Len(persist_trace)] = "load"

\* The JSON text holds the keys of a record.
HasRecordKeys(text) == text # NoText

\* C15: load_processed_knowledge never raises, and for a missing file, a file
\* cut short or a malformed record it returns False.
C15_LoadFailsSoftly ==
    (JustLoaded /\ (cache_file.state # "valid" \/ ~HasRecordKeys(cache_file.content)))
        => load_result = "False"

\* The last calls were a save and then a load of the same file, in the same
\* process or in the next one.
SavedThenLoaded ==
    LET n == Len(persist_trace)
    IN  /\ JustLoaded
        /\ \/ n >= 2 /\ persist_trace[n - 1] = "save"
           \/ n >= 3 /\ persist_trace[n - 1] = "restart" /\ persist_trace[n - 2] = "save"

\* C16: save_processed_knowledge followed by load_processed_knowledge on the same
\* path succeeds and leaves processed_knowledge with the digest contents and the
\* statistics that were saved, for the empty digest as for larger ones.
C16_RoundTrip ==
    SavedThenLoaded => (load_result = "True" /\ processed_knowledge = saved_knowledge)

\* A digest of several items has been saved by one process and loaded by the next.
C16_Witness ==
    /\ persist_trace = <<"save", "restart", "load">>
    /\ processed_knowledge = saved_knowledge
    /\ Cardinality(processed_knowledge.aggregated_knowledge.investment_principles) >= 2

\* C17: a reader that opens the record file while save_processed_knowledge is
\* overwriting it finds the whole previous record or the whole new one, never an
\* empty or partly written file.
C17_ReaderSeesWholeRecord == reader_saw \notin {"empty", "partial"}

\* C33: a call of load_processed_knowledge that returns False leaves
\* processed_knowledge exactly as it was: a digest already held is neither
\* cleared nor partly replaced.
C33_FailedLoadChangesNothing ==
    [][(persist_trace' = Append(persist_trace, "load") /\ load_result' = "False")
          => processed_knowledge' = processed_knowledge]_vars

\* A load has just failed in a service that holds a digest.
C33_Witness ==
    /\ JustLoaded
    /\ load_result = "False"
    /\ processed_knowledge # EmptyKnowledge

-----------------------------------------------------------------------------
(* Properties of the dispatcher *)

InFlight == Cardinality({i \in TaskIds : task_pc[i] = "calling"})

\* C3: at no moment are more than SemaphoreSize calls of process_knowledge_chunk
\* in flight.
C3_ConcurrencyCeiling == InFlight <= SemaphoreSize

\* The limit is reached while another chunk waits.
C3_Witness == InFlight = SemaphoreSize /\ sem_waiters # <<>>

\* C4: the dispatcher returns one result per chunk, and the result at position i
\* (counted from 0) carries chunk_index i.
C4_OrderPreserved ==
    pipeline_pc = "returned" =>
        /\ Len(processed_chunks) = Len(chunks)
        /\ \A k \in 1..Len(processed_chunks) : processed_chunks[k].chunk_index = k - 1

\* The dispatcher has returned after calls that ended out of chunk order.
C4_Witness ==
    /\ pipeline_pc = "returned"
    /\ \E a, b \in DOMAIN done_order : a < b /\ done_order[a] > done_order[b]

\* The step in which task i ends with a failed result.
FailsIn(i) ==
    /\ task_pc[i] # "done"
    /\ task_pc'[i] = "done"
    /\ ~task_result'[i].processed

C5_Accounted ==
    pipeline_pc = "returned" =>
        /\ pipeline_result.total_chunks = Len(chunks)
        /\ pipeline_result.successful_chunks + pipeline_result.failed_chunks
               = pipeline_result.total_chunks
        /\ \A i \in TaskIds :
               Cardinality({k \in DOMAIN processed_chunks :
                               processed_chunks[k].chunk_index = i}) = 1
        /\ pipeline_result.successful_chunks
               = Cardinality({i \in TaskIds : task_result[i].processed})
        /\ pipeline_result.aggregated_knowledge.total_processed_chunks
               = pipeline_result.successful_chunks
        /\ pipeline_result.aggregated_knowledge.investment_principles
               = UNION {Range(task_result[i].principles) :
                           i \in {j \in TaskIds : task_result[j].processed}}

C5_SiblingsUntouched ==
    \A i \in TaskIds :
        FailsIn(i) =>
            \A j \in TaskIds \ {i} :
                /\ task_result'[j] = task_result[j]
                /\ call_outcome'[j] = call_outcome[j]
                /\ task_pc[j] \in {"calling", "done"} => task_pc'[j] = task_pc[j]

\* C5: a chunk that fails changes neither the result nor the running call of any
\* other chunk, and in the pipeline result every chunk counts exactly once, as a
\* success or as a failure under its own index: successful_chunks + failed_chunks
\* = total_chunks, with the aggregate built from the successful ones.
C5_FailureIsolation == []C5_Accounted /\ [][C5_SiblingsUntouched]_vars

\* The pipeline has returned with chunks of both kinds.
C5_Witness ==
    /\ pipeline_pc = "returned"
    /\ pipeline_result.successful_chunks >= 1
    /\ pipeline_result.failed_chunks >= 1

\* C6: a chunk that finds every slot taken waits; given that every started call
\* returns, the call of every chunk is eventually started and
\* process_full_knowledge_base eventually returns.
C6_WaitersAreServed ==
    /\ \A i \in 0..MaxDispatchChunks :
           <>(i >= Len(chunks) \/ task_pc[i] \in {"calling", "done"})
    /\ <>(pipeline_pc = "returned")

\* A chunk that had to wait has been handed a slot.
C6_Witness == \E i \in TaskIds : task_pc[i] = "woken"

\* C7: when a call returns, its task first pauses for the inter-call delay, still
\* holding its slot; only then is the slot released.  (The tasks of the model
\* have no state "pausing": process_with_semaphore returns at once.)
C7_PauseBeforeRelease ==
    [][\A i \in TaskIds :
          (task_pc[i] = "calling" /\ task_pc'[i] # "calling") =>
              /\ task_pc'[i] = "pausing"
              /\ sem_value' = sem_value
              /\ sem_waiters' = sem_waiters]_vars

\* C8: process_knowledge_chunk hands the dispatcher a dict for its own chunk
\* index, never an exception; when the call failed, the dict is marked
\* processed = False, carries an error message and holds no items.
C8_NeverRaises ==
    \A i \in TaskIds :
        task_pc[i] = "done" =>
            /\ task_result[i].kind = "dict"
            /\ task_result[i].chunk_index = i
            /\ call_outcome[i] \in {"raises", "returns_text", "no_agent"} =>
                   /\ ~task_result[i].processed
                   /\ task_result[i].error # "none"
                   /\ task_result[i].principles = <<>>

\* A call that raised has been turned into a result.
C8_Witness ==
    \E i \in TaskIds : task_pc[i] = "done" /\ call_outcome[i] = "raises"

\* C9: a call that the remote end never answers is ended by a timeout, so every
\* call in flight ends and process_full_knowledge_base returns.
C9_CallsTimeOut ==
    (\E i \in TaskIds : task_pc[i] = "calling") ~> (pipeline_pc = "returned")

\* The chunks whose call returned a mapping.
Answered == {i \in TaskIds : call_outcome[i] = "returns_dict"}

\* C19: the aggregator is handed the successful extractions only, and the
\* digest's total_processed_chunks is their number, not the number of chunks:
\* one summary per answered chunk, in chunk order, and nothing from the others.
C19_OnlySuccessfulAggregated ==
    pipeline_pc = "returned" =>
        LET digest == pipeline_result.aggregated_knowledge
            answered == SetToSeq(Answered)
        IN  /\ digest.total_processed_chunks = Cardinality(Answered)
            /\ Len(digest.chunk_summaries) = Cardinality(Answered)
            /\ Range(digest.chunk_summaries)
                   = {task_result[i].summary : i \in Answered}
            /\ digest.memorable_quotes
                   = UNION {Range(task_result[i].quotes) : i \in Answered}

\* The pipeline has returned with several answered chunks and a failed one.
C19_Witness ==
    /\ pipeline_pc = "returned"
    /\ pipeline_result.aggregated_knowledge.total_processed_chunks >= 2
    /\ pipeline_result.aggregated_knowledge.total_processed_chunks
           < pipeline_result.total_chunks

\* The items of a metrics dict, each a name with its value.
MetricItems(d) == {<<k, d[k]>> : k \in DOMAIN d}

\* C20: each of the five digest fields (principles, strategies, metrics,
\* insights, quotes) holds exactly the distinct items that occur in that field
\* of some successful extraction: all of them, and nothing else.
C20_DigestIsUnionOfFields ==
    pipeline_pc = "returned" =>
        LET digest == pipeline_result.aggregated_knowledge
            ok == {i \in TaskIds : task_result[i].processed}
        IN  /\ digest.investment_principles
                   = UNION {Range(task_result[i].principles) : i \in ok}
            /\ digest.key_insights
                   = UNION {Range(task_result[i].insights) : i \in ok}
            /\ digest.memorable_quotes
                   = UNION {Range(task_result[i].quotes) : i \in ok}
            /\ MetricItems(digest.quantitative_metrics)
                   = UNION {MetricItems(task_result[i].metrics) : i \in ok}
            /\ (IF "investment_strategies" \in DOMAIN digest
                THEN digest.investment_strategies ELSE {})
                   = UNION {Range(call_payload[i].strategies) : i \in ok}

\* C23: when no chunk was extracted successfully the aggregator still returns,
\* with every field of the digest empty and total_processed_chunks = 0.
C23_ZeroSuccessesEmptyDigest ==
    (pipeline_pc = "returned" /\ SuccessfulChunks(processed_chunks) = <<>>) =>
        /\ pipeline_result.total_chunks = Len(chunks)
        /\ pipeline_result.aggregated_knowledge =
               [investment_principles |-> {}, key_insights |-> {},
                memorable_quotes |-> {}, quantitative_metrics |-> EmptyDict,
                chunk_summaries |-> <<>>, total_processed_chunks |-> 0]

\* The pipeline has returned from several chunks whose calls all failed.
C23_Witness ==
    /\ pipeline_pc = "returned"
    /\ Len(chunks) >= 2
    /\ \A i \in TaskIds : call_outcome[i] \in {"raises", "returns_text"}

\* The tasks that hold a slot: inside `async with`, or handed one on a release.
SlotHolders == {i \in TaskIds : task_pc[i] \in {"calling", "woken"}}

\* C32: the semaphore's counter stays between 0 and its limit, a slot is held
\* exactly by the tasks whose call has not ended yet, whether calls succeed or
\* fail, and all slots are free when process_full_knowledge_base returns.
C32_SlotsAccounted ==
    /\ sem_value >= 0
    /\ sem_value <= SemaphoreSize
    /\ sem_value + Cardinality(SlotHolders) = SemaphoreSize
    /\ pipeline_pc = "returned" => (sem_value = SemaphoreSize /\ sem_waiters = <<>>)

\* The pipeline has returned from more chunks than slots, with calls that
\* failed and calls that succeeded.
C32_Witness ==
    /\ pipeline_pc = "returned"
    /\ Len(chunks) > SemaphoreSize
    /\ \E i \in TaskIds : call_outcome[i] = "raises"
    /\ \E i \in TaskIds : call_outcome[i] = "returns_dict"

\* No call of the summarizer failed or answered otherwise than with the one
\* principle "moat".
EveryAnswerIsMoat ==
    \A i \in TaskIds :
        /\ call_outcome[i] \notin {"raises", "returns_text"}
        /\ call_outcome[i] = "returns_dict" => call_payload[i].principles = <<"moat">>

\* C24: end to end, when the summarizer answers every one of the N chunks with
\* the same single principle, every chunk is recorded as successful, the digest
\* holds exactly that principle and total_processed_chunks = N.
C24_EndToEndSinglePrinciple ==
    (pipeline_pc = "returned" /\ Len(chunks) >= 1 /\ EveryAnswerIsMoat) =>
        /\ pipeline_result.successful_chunks = Len(chunks)
        /\ pipeline_result.aggregated_knowledge.investment_principles = {"moat"}
        /\ pipeline_result.aggregated_knowledge.total_processed_chunks = Len(chunks)

-----------------------------------------------------------------------------
(* _aggregate_processed_chunks on its own: one list of successful            *)
(* extractions and a variant of it, each handed to the aggregator.           *)


\* The successful results process_knowledge_chunk can build: the mappings the
\* agent may return and the mapping without keys, each under a chunk index.
Extractions ==
    {SuccessResult(i, p) : i \in 0..(MaxAggChunks - 1),
                           p \in AgentPayloads \cup {EmptyPayload}}

\* list s with the item x put in at position k.
InsertAt(s, k, x) == SubSeq(s, 1, k - 1) \o <<x>> \o SubSeq(s, k, Len(s))

\* The lists that hold the items of s and one of them a second time.
WithDuplicate(s) ==
    {InsertAt(s, k, s[j]) : j \in DOMAIN s, k \in 1..(Len(s) + 1)}

\* The lists that hold the items of s in another order (or the same).
Reorderings(s) ==
    {[k \in DOMAIN s |-> s[f[k]]] :
        f \in {g \in [DOMAIN s -> DOMAIN s] : \A a, b \in DOMAIN s : a # b => g[a] # g[b]}}

AggInit ==
    /\ NoChunk /\ NoDispatch /\ NoAgent /\ NoPersist
    /\ NoRender /\ NoParse /\ NoAnalyze /\ NoQuote
    /\ agg_digest = NoDigest
    /\ agg_variant_digest = NoDigest
    /\ \E s \in SeqsUpTo(Extractions, MaxAggChunks) :
          /\ \A k \in DOMAIN s : s[k].chunk_index = k - 1
          /\ agg_input = s
          /\ agg_variant \in WithDuplicate(s) \cup Reorderings(s)

\* aggregated = self._aggregate_processed_chunks(agg_input)
AggregateInput ==
    /\ agg_digest = NoDigest
    /\ agg_digest' = AggregateProcessedChunks(agg_input)
    /\ UNCHANGED <<agg_input, agg_variant, agg_variant_digest>>
    /\ UNCHANGED <<chunkVars, dispatchVars, agentVars, persistVars, quoteVars,
                   renderVars, parseVars, analyzeVars>>

\* aggregated = self._aggregate_processed_chunks(agg_variant)
AggregateVariant ==
    /\ agg_variant_digest = NoDigest
    /\ agg_variant_digest' = AggregateProcessedChunks(agg_variant)
    /\ UNCHANGED <<agg_input, agg_variant, agg_digest>>
    /\ UNCHANGED <<chunkVars, dispatchVars, agentVars, persistVars, quoteVars,
                   renderVars, parseVars, analyzeVars>>

AggNext ==
    \/ AggregateInput
    \/ AggregateVariant

AggSpec == AggInit /\ [][AggNext]_vars

\* Both lists have been aggregated.
BothAggregated == agg_digest # NoDigest /\ agg_variant_digest # NoDigest

\* The two digests hold the same items in every field that holds items.
SameFieldContents ==
    /\ agg_variant_digest.investment_principles = agg_digest.investment_principles
    /\ agg_variant_digest.key_insights = agg_digest.key_insights
    /\ agg_variant_digest.memorable_quotes = agg_digest.memorable_quotes
    /\ agg_variant_digest.quantitative_metrics = agg_digest.quantitative_metrics

\* C21: a list in which one successful extraction appears a second time is
\* aggregated to the same contents, field by field, as the list without the
\* second appearance.
C21_DuplicateChangesNothing ==
    (BothAggregated /\ agg_variant \in WithDuplicate(agg_input)) => SameFieldContents

\* C22: any permutation of a list of successful extractions is aggregated to
\* the same contents in every digest field.
C22_OrderIndependent ==
    (BothAggregated /\ agg_variant \in Reorderings(agg_input)) => SameFieldContents

-----------------------------------------------------------------------------
(* get_condensed_knowledge_for_prompt on its own: calls on one digest, with   *)
(* a save and load of the record between them.                                *)

\* The slices of the rendering that runs, and the slice the first definition
\* took of the metrics.
PrinciplesCap == 20
InsightsCap == 15
QuotesCap == 10
MetricsCap == 15

\* n distinct items.
ItemNames(n) == {ToString(k) : k \in 1..n}

\* A processed_knowledge whose digest holds n principles, n insights, n quotes
\* and m metrics.
DigestOfSize(n, m) ==
    [total_chunks |-> 1, successful_chunks |-> 1, failed_chunks |-> 0,
     aggregated_knowledge |->
         [investment_principles |-> ItemNames(n), key_insights |-> ItemNames(n),
          memorable_quotes |-> ItemNames(n),
          quantitative_metrics |-> [k \in ItemNames(m) |-> "v"],
          chunk_summaries |-> <<>>, total_processed_chunks |-> 1]]

RenderDigests ==
    {EmptyKnowledge}
    \cup {DigestOfSize(n, m) : n \in 0..MaxDigestItems, m \in 0..MaxDigestItems}

\* return ""
EmptyPrompt ==
    [empty |-> TRUE, total |-> 0, principles |-> <<>>, insights |-> <<>>,
     quotes |-> <<>>, metrics |-> <<>>]

\* d.items(): the names of the dict with their values, in the dict's order.
DictItems(d) ==
    LET names == SetToSeq(DOMAIN d)
    IN  [k \in DOMAIN names |-> <<names[k], d[names[k]]>>]

\* condensed_prompt: the number in the banner and the items listed under each
\* of the four section banners.  A list of the digest is kept as the set of
\* its items; SetToSeq gives the items in the order in which the list holds
\* them.
CondensedPrompt(pk) ==
    IF pk = EmptyKnowledge THEN EmptyPrompt
    ELSE LET aggregated == pk.aggregated_knowledge
         IN  [empty |-> FALSE,
              total |-> aggregated.total_processed_chunks,
              principles |->
                  PySlice(SetToSeq(aggregated.investment_principles), 0, PrinciplesCap),
              insights |-> PySlice(SetToSeq(aggregated.key_insights), 0, InsightsCap),
              quotes |-> PySlice(SetToSeq(aggregated.memorable_quotes), 0, QuotesCap),
              metrics |-> DictItems(aggregated.quantitative_metrics)]

\* A rendering that cuts the lists of the digest down to what it lists.
KnowledgeAfterRender_CutsInPlace(pk) ==
    IF pk = EmptyKnowledge THEN pk
    ELSE [pk EXCEPT !.aggregated_knowledge.investment_principles =
                        Range(CondensedPrompt(pk).principles)]

\* self.processed_knowledge after the call: the function reads it with .get
\* and slices copies of its lists; it assigns to nothing but locals.
KnowledgeAfterRender(pk) == pk

RenderInit ==
    /\ NoChunk /\ NoDispatch /\ NoPersist
    /\ NoAgg /\ NoParse /\ NoAnalyze /\ NoQuote
    /\ agent_class = "none"
    /\ knowledge_initialized = FALSE
    /\ condensed_knowledge = ""
    /\ cache_file = NoFile
    /\ req_pc = <<>>
    /\ req_log = <<>>
    /\ init_returned = <<>>
    /\ processed_knowledge \in RenderDigests
    /\ render_texts = <<>>
    /\ reload_after = -1

\* One call of get_condensed_knowledge_for_prompt.
Render ==
    /\ Len(render_texts) < MaxRenderCalls
    /\ render_texts' = Append(render_texts, CondensedPrompt(processed_knowledge))
    /\ processed_knowledge' = KnowledgeAfterRender(processed_knowledge)
    /\ UNCHANGED <<agent_class, knowledge_initialized, condensed_knowledge, cache_file,
                   req_pc, req_log, init_returned, reload_after>>
    /\ UNCHANGED <<chunkVars, dispatchVars, persistVars, aggVars, parseVars, analyzeVars,
                   quoteVars>>

\* save_processed_knowledge, then load_processed_knowledge of what was saved.
SaveThenLoad ==
    /\ reload_after = -1
    /\ reload_after' = Len(render_texts)
    /\ cache_file' = ValidFile(processed_knowledge)
    /\ processed_knowledge' = JsonLoad(cache_file'.content)
    /\ UNCHANGED <<agent_class, knowledge_initialized, condensed_knowledge,
                   req_pc, req_log, init_returned, render_texts>>
    /\ UNCHANGED <<chunkVars, dispatchVars, persistVars, aggVars, parseVars, analyzeVars,
                   quoteVars>>

RenderNext ==
    \/ Render
    \/ SaveThenLoad

RenderSpec == RenderInit /\ [][RenderNext]_vars

\* C26: whatever the digest holds, each section of the condensed text lists at
\* most that section's fixed maximum number of items.
C26_SectionsCapped ==
    \A k \in DOMAIN render_texts :
        /\ Len(render_texts[k].principles) <= PrinciplesCap
        /\ Len(render_texts[k].insights) <= InsightsCap
        /\ Len(render_texts[k].quotes) <= QuotesCap
        /\ Len(render_texts[k].metrics) <= MetricsCap

-----------------------------------------------------------------------------
(* _parse_structured_response                                                 *)
(*                                                                            *)
(* A line is the sequence of the pieces of text it is made of: a section      *)
(* keyword with its colon in some spelling, the word PRINCIPLES without a     *)
(* colon, a blank, a dash, or a word.  No piece is the beginning of another.  *)

\* The keys of result, in the order of the if/elif chain.
Sections == <<"principles", "strategies", "metrics", "insights", "quotes">>

\* The text each branch of the chain looks for.
Keyword(section) ==
    CASE section = "principles" -> "PRINCIPLES:"
      [] section = "strategies" -> "STRATEGIES:"
      [] section = "metrics"    -> "METRICS:"
      [] section = "insights"   -> "INSIGHTS:"
      [] OTHER                  -> "QUOTES:"

\* The lines the responses are made of.
SampleLines ==
    {<<"PRINCIPLES:">>,
     <<" ", "principles:", " ">>,
     <<"Strategies:">>,
     <<"METRICS:", " ", "x">>,
     <<"INSIGHTS:">>,
     <<"QUOTES:">>,
     <<"PRINCIPLES">>,
     <<"x", " ", "METRICS:">>,
     <<"-", " ", "x">>,
     <<" ", "-", " ", " ", "y", " ">>,
     <<"-", " ", "METRICS:">>,
     <<"-", "x">>,
     <<"-", " ">>,
     <<" ">>,
     <<>>}

\* str.upper() of one piece.
UpperPiece(c) ==
    CASE c = "principles:" -> "PRINCIPLES:"
      [] c = "Strategies:" -> "STRATEGIES:"
      [] c = "x"           -> "X"
      [] c = "y"           -> "Y"
      [] OTHER             -> c

\* line.upper()
Upper(line) == [k \in DOMAIN line |-> UpperPiece(line[k])]

\* line.strip()
RECURSIVE Strip(_)
Strip(line) ==
    IF line = <<>> THEN line
    ELSE IF Head(line) = " " THEN Strip(Tail(line))
    ELSE IF line[Len(line)] = " " THEN Strip(SubSeq(line, 1, Len(line) - 1))
    ELSE line

\* line.startswith(prefix)
StartsWith(line, prefix) ==
    Len(line) >= Len(prefix) /\ SubSeq(line, 1, Len(prefix)) = prefix

\* The branch of the if/elif chain a stripped line takes: the section whose
\* keyword line.upper() starts with, "None" when it starts with none.
HeaderOf(line) ==
    IF \E k \in DOMAIN Sections : StartsWith(Upper(line), <<Keyword(Sections[k])>>)
    THEN Sections[CHOOSE k \in DOMAIN Sections :
                      /\ StartsWith(Upper(line), <<Keyword(Sections[k])>>)
                      /\ \A j \in 1..(k - 1) :
                            ~StartsWith(Upper(line), <<Keyword(Sections[j])>>)]
    ELSE "None"

\* line.startswith('- ')
IsBullet(line) == StartsWith(line, <<"-", " ">>)

\* item = line[2:].strip()
ItemOf(line) == Strip(SubSeq(line, 3, Len(line)))

\* A parser whose cursor stays on the first header it met.
SectionAfter_FirstHeaderWins(line, section) ==
    IF section = "None" THEN HeaderOf(line) ELSE section

\* current_section after the header branches for a stripped, non-empty line.
SectionAfter(line, section) ==
    IF HeaderOf(line) # "None" THEN HeaderOf(line) ELSE section

ParseInit ==
    /\ NoChunk /\ NoDispatch /\ NoAgent /\ NoPersist
    /\ NoAgg /\ NoRender /\ NoAnalyze /\ NoQuote
    /\ parse_lines \in SeqsUpTo(SampleLines, MaxResponseLines)
    /\ parse_idx = 0
    /\ current_section = "None"
    /\ parse_result = EmptyParseResult

\* One iteration of `for line in lines`.
ParseLine ==
    /\ parse_idx < Len(parse_lines)
    /\ parse_idx' = parse_idx + 1
    /\ LET line == Strip(parse_lines[parse_idx + 1])
       IN  IF line = <<>>
           THEN UNCHANGED <<current_section, parse_result>>
           ELSE /\ current_section' = SectionAfter(line, current_section)
                /\ IF /\ HeaderOf(line) = "None"
                      /\ current_section # "None"
                      /\ IsBullet(line)
                      /\ ItemOf(line) # <<>>
                   THEN parse_result' =
                            [parse_result EXCEPT ![current_section] = Append(@, ItemOf(line))]
                   ELSE UNCHANGED parse_result
    /\ UNCHANGED parse_lines
    /\ UNCHANGED <<chunkVars, dispatchVars, agentVars, persistVars, quoteVars,
                   aggVars, renderVars, analyzeVars>>

ParseNext == ParseLine

ParseSpec == ParseInit /\ [][ParseNext]_vars

\* The section of the most recent recognized header above line k, "None" when
\* no line above k is a recognized header.
SectionAbove(k) ==
    LET headers == {j \in 1..(k - 1) : HeaderOf(Strip(parse_lines[j])) # "None"}
    IN  IF headers = {} THEN "None"
        ELSE HeaderOf(Strip(parse_lines[CHOOSE j \in headers : \A i \in headers : i <= j]))

\* The items of the bullet lines among the first n lines that stand under a
\* header of the section, in the order of the lines.
RECURSIVE ItemsUnder(_, _)
ItemsUnder(section, n) ==
    IF n = 0 THEN <<>>
    ELSE LET line == Strip(parse_lines[n])
         IN  IF IsBullet(line) /\ SectionAbove(n) = section
             THEN Append(ItemsUnder(section, n - 1), ItemOf(line))
             ELSE ItemsUnder(section, n - 1)

\* C28: an item is in a section's list exactly when its line begins with the
\* bullet marker and the most recent recognized header above it is that
\* section's; bullets above the first header are in no list, whatever the
\* order of the headers, their repetition or their lack of items.
C28_ItemsFollowLatestHeader ==
    \A k \in DOMAIN Sections :
        parse_result[Sections[k]] = ItemsUnder(Sections[k], parse_idx)

\* A response has been read in which a bullet stands above the first header
\* and another below it: only the second is in the header's list.
C28_Witness ==
    /\ parse_idx = Len(parse_lines)
    /\ Len(parse_lines) = 3
    /\ IsBullet(Strip(parse_lines[1]))
    /\ HeaderOf(Strip(parse_lines[2])) # "None"
    /\ IsBullet(Strip(parse_lines[3]))
    /\ parse_result[HeaderOf(Strip(parse_lines[2]))] = <<ItemOf(Strip(parse_lines[3]))>>

\* The line the last iteration of the loop read, stripped and in upper case.
LastLineRead == Upper(Strip(parse_lines[parse_idx]))

\* C29: a line switches the current section only if, ignoring case, it is
\* exactly one of the five section keywords; a line that starts with a
\* keyword and goes on is not a header.
C29_HeaderIsExactKeyword ==
    (parse_idx >= 1 /\ current_section # SectionAbove(parse_idx))
        => \E k \in DOMAIN Sections : LastLineRead = <<Keyword(Sections[k])>>

-----------------------------------------------------------------------------
(* analyze_stock of WarrenBuffettAgent and of LangGraphWarrenBuffettAgent,    *)
(* each run on the same answers of the market data tool and the LLM service,  *)
(* with the knowledge base already initialized.                               *)

\* How a call of the tool or of the service ends: "ok": a dict without the key
\* 'error'; "error": a dict with the key 'error'; "raises": an exception.
CallEnds == {"ok", "error", "raises"}

AnalyzeInit ==
    /\ NoChunk /\ NoDispatch /\ NoAgent /\ NoPersist
    /\ NoAgg /\ NoRender /\ NoParse /\ NoQuote
    /\ outcomes \in [market : CallEnds, fundamentals : CallEnds, llm : CallEnds]
    /\ wb_run = [IdleRun EXCEPT !.pc = "gather_market_data"]
    \* initial_state: market_data {}, analysis_result {}, final_result {}, error None
    /\ lg_run = [IdleGraph EXCEPT !.pc = "gather_market_data",
                                  !.market_data = "empty",
                                  !.analysis_result = "empty"]

\* WarrenBuffettAgent._gather_market_data and the check analyze_stock makes of
\* its result: an error of get_stock_data, or an exception of either call,
\* comes back as a dict with 'error' and ends the request with status error;
\* an error of get_fundamentals only empties the financials.
WBGatherMarketData ==
    /\ wb_run.pc = "gather_market_data"
    /\ wb_run' =
          IF outcomes.market # "ok" \/ outcomes.fundamentals = "raises"
          THEN [wb_run EXCEPT !.pc = "done", !.market_data = "error", !.status = "error"]
          ELSE [wb_run EXCEPT !.pc = "llm_analysis",
                              !.market_data = IF outcomes.fundamentals = "ok"
                                              THEN "ok" ELSE "without_financials"]
    /\ UNCHANGED <<outcomes, lg_run>>
    /\ UNCHANGED <<chunkVars, dispatchVars, agentVars, persistVars, quoteVars,
                   aggVars, renderVars, parseVars>>

\* Steps 2 and 3 of WarrenBuffettAgent.analyze_stock: a result with 'error'
\* is returned as status error, an exception is caught by the outer except,
\* anything else is formatted as status success.
WBAnalyze ==
    /\ wb_run.pc = "llm_analysis"
    /\ wb_run' =
          IF outcomes.llm = "ok"
          THEN [wb_run EXCEPT !.pc = "done", !.analysis = "ok", !.status = "success"]
          ELSE [wb_run EXCEPT !.pc = "done", !.analysis = "error", !.status = "error"]
    /\ UNCHANGED <<outcomes, lg_run>>
    /\ UNCHANGED <<chunkVars, dispatchVars, agentVars, persistVars, quoteVars,
                   aggVars, renderVars, parseVars>>

\* The node gather_market_data: it returns {"market_data": data}, or
\* {"error": ...}; the edge leads to llm_analysis either way.
LGGatherMarketData ==
    /\ lg_run.pc = "gather_market_data"
    /\ lg_run' =
          IF outcomes.market = "ok"
          THEN [lg_run EXCEPT !.pc = "llm_analysis", !.market_data = "ok"]
          ELSE [lg_run EXCEPT !.pc = "llm_analysis", !.error = "market_data"]
    /\ UNCHANGED <<outcomes, wb_run>>
    /\ UNCHANGED <<chunkVars, dispatchVars, agentVars, persistVars, quoteVars,
                   aggVars, renderVars, parseVars>>

\* The node llm_analysis: it calls the service with state["market_data"]
\* whatever the node before it returned, and returns {"analysis_result": ...}
\* or {"error": ...}; the edge leads to compile_result either way.
LGLlmAnalysis ==
    /\ lg_run.pc = "llm_analysis"
    /\ lg_run' =
          IF outcomes.llm = "ok"
          THEN [lg_run EXCEPT !.pc = "compile_result", !.analysis_result = "ok"]
          ELSE [lg_run EXCEPT !.pc = "compile_result", !.error = "llm_analysis"]
    /\ UNCHANGED <<outcomes, wb_run>>
    /\ UNCHANGED <<chunkVars, dispatchVars, agentVars, persistVars, quoteVars,
                   aggVars, renderVars, parseVars>>

\* The node compile_result: it reads analysis_result with .get and market_data,
\* never state["error"], and builds final_result with "status": "success".
CompiledStatus(state) == "success"

\* compile_result runs, ainvoke returns and analyze_stock returns
\* result.get("final_result", result).
LGCompileResult ==
    /\ lg_run.pc = "compile_result"
    /\ lg_run' = [lg_run EXCEPT !.pc = "done", !.status = CompiledStatus(lg_run)]
    /\ UNCHANGED <<outcomes, wb_run>>
    /\ UNCHANGED <<chunkVars, dispatchVars, agentVars, persistVars, quoteVars,
                   aggVars, renderVars, parseVars>>

AnalyzeNext ==
    \/ WBGatherMarketData
    \/ WBAnalyze
    \/ LGGatherMarketData
    \/ LGLlmAnalysis
    \/ LGCompileResult

AnalyzeSpec == AnalyzeInit /\ [][AnalyzeNext]_vars

\* C30: on the same market-data outcome and the same LLM outcome the two
\* agents return the same status, and the graph agent returns status error,
\* never success, when its market-data node or its LLM node met an error.
C30_GraphMirrorsAgent ==
    (wb_run.pc = "done" /\ lg_run.pc = "done") =>
        /\ lg_run.status = wb_run.status
        /\ lg_run.error # "none" => lg_run.status = "error"

-----------------------------------------------------------------------------
(* MarketDataTool.get_quote: some calls for one symbol, for every setting of  *)
(* max_retries, with the Finnhub client answering or raising.                 *)

\* self.client.quote(symbol): "quote": a dict with 'c'; "no_data": an empty
\* dict, or one without 'c'; "raises": an exception.
ClientOutcomes == {"quote", "no_data", "raises"}

QuoteInit ==
    /\ NoChunk /\ NoDispatch /\ NoAgent /\ NoPersist
    /\ NoAgg /\ NoRender /\ NoParse /\ NoAnalyze
    \* max_retries=int(os.getenv("MAX_RETRIES", "3")), unchecked
    /\ max_retries \in 0..MaxRetriesSetting
    /\ attempt = 0
    /\ client_calls = 0
    /\ last_outcome = "none"
    /\ quote_pc = "idle"
    /\ quote_returned = "none"
    /\ quote_cache = "none"
    /\ quotes_asked = 0

\* get_quote up to its for loop: a cached quote not older than a minute is
\* returned; otherwise the loop starts, and with range(self.max_retries)
\* empty the function runs off its end and returns None.
QuoteStart ==
    /\ quote_pc = "idle"
    /\ quotes_asked < MaxQuoteCalls
    /\ quotes_asked' = quotes_asked + 1
    /\ client_calls' = 0
    /\ last_outcome' = "none"
    /\ attempt' = 0
    /\ \E fresh \in BOOLEAN :
          IF quote_cache # "none" /\ fresh
          THEN /\ quote_returned' = quote_cache
               /\ quote_pc' = "returned"
          ELSE IF max_retries <= 0
          THEN /\ quote_returned' = "None"
               /\ quote_pc' = "returned"
          ELSE /\ quote_returned' = "none"
               /\ quote_pc' = "attempt"
    /\ UNCHANGED <<max_retries, quote_cache>>
    /\ UNCHANGED <<chunkVars, dispatchVars, agentVars, persistVars,
                   aggVars, renderVars, parseVars, analyzeVars>>

\* The body of the for loop once self.client.quote has ended as o: a quote is
\* formatted, stored in the cache and returned; an answer without data is
\* returned as an error; an exception leads to the next attempt, or, on the
\* last one, to an error.
AfterAttempt(o) ==
    CASE o = "quote" ->
             [pc |-> "returned", returned |-> "success", cache |-> "success",
              attempt |-> attempt]
      [] o = "no_data" ->
             [pc |-> "returned", returned |-> "error", cache |-> quote_cache,
              attempt |-> attempt]
      [] OTHER ->
             IF attempt < max_retries - 1
             THEN [pc |-> "attempt", returned |-> "none", cache |-> quote_cache,
                   attempt |-> attempt + 1]
             ELSE [pc |-> "returned", returned |-> "error", cache |-> quote_cache,
                   attempt |-> attempt]

\* One iteration of `for attempt in range(self.max_retries)`.
QuoteAttempt ==
    /\ quote_pc = "attempt"
    /\ \E o \in ClientOutcomes :
          /\ last_outcome' = o
          /\ quote_pc' = AfterAttempt(o).pc
          /\ quote_returned' = AfterAttempt(o).returned
          /\ quote_cache' = AfterAttempt(o).cache
          /\ attempt' = AfterAttempt(o).attempt
    /\ client_calls' = client_calls + 1
    /\ UNCHANGED <<max_retries, quotes_asked>>
    /\ UNCHANGED <<chunkVars, dispatchVars, agentVars, persistVars,
                   aggVars, renderVars, parseVars, analyzeVars>>

\* The caller has its result; the tool is ready for the next call.
QuoteDone ==
    /\ quote_pc = "returned"
    /\ quote_pc' = "idle"
    /\ UNCHANGED <<max_retries, attempt, client_calls, last_outcome, quote_returned,
                   quote_cache, quotes_asked>>
    /\ UNCHANGED <<chunkVars, dispatchVars, agentVars, persistVars,
                   aggVars, renderVars, parseVars, analyzeVars>>

QuoteNext ==
    \/ QuoteStart
    \/ QuoteAttempt
    \/ QuoteDone

QuoteSpec == QuoteInit /\ [][QuoteNext]_vars

\* C34: for every max_retries, 0 included, one get_quote calls the client at
\* most max_retries times and calls it again only after an exception; what it
\* returns has status success or error; the cache holds success results only.
C34_QuoteRetriesAndStatus ==
    /\ [](/\ client_calls <= max_retries
          /\ quote_pc = "returned" => quote_returned \in {"success", "error"}
          /\ quote_cache \in {"none", "success"})
    /\ [][(client_calls' > client_calls /\ client_calls >= 1)
             => last_outcome = "raises"]_vars

=============================================================================
